---- MODULE Spec2Model ----
(***************************************************************************)
(* A model of app/main.py, the NFT IPFS backend: the six route handlers,  *)
(* the two data directories and the IPFS client connections.              *)
(*                                                                         *)
(* Every handler is an "async def" that never awaits, so the event loop    *)
(* runs each request to completion before it starts the next one: one      *)
(* action is one whole request.  What the environment decides (whether the *)
(* IPFS node answers, whether a disk write succeeds, the order in which    *)
(* the directory is enumerated) is an input of the action.                 *)
(***************************************************************************)
EXTENDS Integers, Sequences, FiniteSets, TLC

VARIABLES
    metadata_dir,   \* ./data/metadata: file name -> file content
    uploads_dir,    \* ./data/uploads: the set of file names in it
    open_clients,   \* IPFS client handles connected and not yet closed
    uuids,          \* how many ids uuid4() has produced
    issued,         \* history: nft_id -> the NFTResponse a create returned with 200
    response        \* the last request and the response it got

vars == <<metadata_dir, uploads_dir, open_clients, uuids, issued, response>>

-----------------------------------------------------------------------------
(* Bounds *)

MaxUuids == 2
MaxClients == 2

-----------------------------------------------------------------------------
(* Python values *)

None == "None"

\* A str is modelled as the sequence of its code points where its order
\* matters (metadata names), as a TLA+ string elsewhere.
Names == { <<65>>, <<65, 48>> }
Descriptions == { "d" }

\* The attributes form field: absent, empty, a JSON text, a text that is no JSON.
AttributeTexts == { None, "", "[{\"trait\":\"x\"}]", "{bad" }

NoFile == [filename |-> None, content_type |-> None]
Files == { NoFile, [filename |-> "a.png", content_type |-> "image/png"] }

Gateways == { "ipfs.io", "dweb.link" }

Handles == 1..MaxClients
NoClient == 0        \* get_ipfs_client() returned None
Unbound == -1        \* the local ipfs_client was never assigned

\* bool(x) of an Optional[str] / Optional[UploadFile] / Optional client
Truthy(x) == x # None /\ x # ""
FileGiven(file) == file # NoFile

-----------------------------------------------------------------------------
(* Exceptions *)

NoException == [type |-> "none", status_code |-> 0, detail |-> ""]
HTTPException(status_code, detail) ==
    [type |-> "HTTPException", status_code |-> status_code, detail |-> detail]
PyError(type, detail) == [type |-> type, status_code |-> 0, detail |-> detail]

\* isinstance(e, Exception): HTTPException derives from Exception like the rest.
ExceptionTypes == { "HTTPException", "JSONDecodeError", "OSError",
                    "ErrorResponse", "ValidationError" }
IsException(e) == e.type \in ExceptionTypes

-----------------------------------------------------------------------------
(* json *)

\* json.loads of the attributes text
JsonLoads(text) ==
    CASE text = "[{\"trait\":\"x\"}]" -> [ok |-> TRUE, value |-> << [trait |-> "x"] >>]
      [] OTHER -> [ok |-> FALSE, value |-> << >>]

\* Python None is written as JSON null and read back as None.
ToJson(v) == IF v = None THEN "null" ELSE v
FromJson(j) == IF j = "null" THEN None ELSE j

\* The JSON document of the full record (json.dump(nft_data, f)).
EncodeNftData(d) ==
    [nft_id |-> d.nft_id, content_cid |-> ToJson(d.content_cid),
     metadata_cid |-> ToJson(d.metadata_cid), metadata |-> d.metadata]
DecodeNftData(j) ==
    [nft_id |-> j.nft_id, content_cid |-> FromJson(j.content_cid),
     metadata_cid |-> FromJson(j.metadata_cid), metadata |-> j.metadata]

\* A file holds a JSON text, whole or cut short by a failed write (what is
\* left of the text is then no JSON document).
WholeFile(doc) == [complete |-> TRUE, json |-> doc]
CutFile(doc) == [complete |-> FALSE, json |-> "{"]

-----------------------------------------------------------------------------
(* The response model *)

NoNFT == [nft_id |-> 0, content_cid |-> None, metadata_cid |-> None,
          metadata |-> [name |-> << >>]]

\* NFTResponse(**nft_data): the three str fields refuse None.
NFTResponseValid(d) ==
    d.nft_id # 0 /\ d.content_cid # None /\ d.metadata_cid # None

\* json.load(f): a text cut short does not parse.
JsonLoad(content) ==
    IF content.complete
    THEN [ok |-> TRUE, value |-> DecodeNftData(content.json)]
    ELSE [ok |-> FALSE, value |-> NoNFT]

-----------------------------------------------------------------------------
(* File names *)

MetadataFile(nft_id) == <<nft_id, ".json">>
NftDataFile(nft_id) == <<nft_id, "_data.json">>
UploadFile(nft_id, file) == <<nft_id, file.filename>>

Write(dir, path, content) ==
    [p \in DOMAIN dir \cup {path} |-> IF p = path THEN content ELSE dir[p]]

\* with open(path, "w") as f: f.write(text), under the disk's outcome
DiskOutcomes == { "ok", "open_failed", "write_failed" }
WriteFile(dir, path, doc, outcome) ==
    CASE outcome = "ok" -> Write(dir, path, WholeFile(doc))
      [] outcome = "write_failed" -> Write(dir, path, CutFile(doc))
      [] OTHER -> dir

-----------------------------------------------------------------------------
(* The IPFS node *)

\* The hash the node returns for an added file.
ContentCid == "QmContent"
MetadataCid == "QmMetadata"

\* What the environment decides during one create request; a step that is
\* not reached keeps its first value.
Envs ==
    { e \in [connect : BOOLEAN, copyfile : DiskOutcomes, add_file : BOOLEAN,
             write_metadata : DiskOutcomes, add_metadata : BOOLEAN,
             dump_data : DiskOutcomes] :
        LET rest_copyfile == e.copyfile = "ok"
            rest_add_file == e.add_file
            rest_write_metadata == e.write_metadata = "ok"
            rest_add_metadata == e.add_metadata
            rest_dump_data == e.dump_data = "ok"
        IN  /\ ~e.connect => /\ rest_copyfile /\ rest_add_file /\ rest_write_metadata
                              /\ rest_add_metadata /\ rest_dump_data
            /\ ~rest_copyfile => /\ rest_add_file /\ rest_write_metadata
                                 /\ rest_add_metadata /\ rest_dump_data
            /\ ~rest_add_file => /\ rest_write_metadata /\ rest_add_metadata
                                 /\ rest_dump_data
            /\ ~rest_write_metadata => rest_add_metadata /\ rest_dump_data
            /\ ~rest_add_metadata => rest_dump_data }

\* Every step succeeds.
AllOk ==
    [connect |-> TRUE, copyfile |-> "ok", add_file |-> TRUE,
     write_metadata |-> "ok", add_metadata |-> TRUE, dump_data |-> "ok"]

\* The environments of a request: the steps a request without a file, or
\* with attributes that do not parse, never reaches keep their first value.
EnvsOf(file, attributes_ok) ==
    { e \in Envs :
        /\ ~attributes_ok => e = AllOk
        /\ ~FileGiven(file) => e.copyfile = "ok" /\ e.add_file }

\* get_ipfs_client(): a new handle, or None when connect raises
get_ipfs_client(connect, oc) ==
    IF connect /\ Handles \ oc # {}
    THEN CHOOSE h \in Handles \ oc : \A g \in Handles \ oc : h <= g
    ELSE NoClient

-----------------------------------------------------------------------------
(* POST /upload/ *)

\* What the try block of upload_to_ipfs leaves behind: the exception it raised
\* (or none), the value it returned, the two directories, the connected
\* handles and the local ipfs_client.
Outcome(raised, nft, md, up, oc, ipfs_client) ==
    [raised |-> raised, nft |-> nft, metadata_dir |-> md, uploads_dir |-> up,
     open_clients |-> oc, ipfs_client |-> ipfs_client]

\* Mutant of HandleFileUpload: the content is added but the metadata is not
\* extended with image and content_type.
HandleFileUploadKeepsMetadata(up, nft_id, file, metadata, env) ==
    LET file_path == <<nft_id, file.filename>> IN
    IF file = [filename |-> None, content_type |-> None]
    THEN [raised |-> NoException, content_cid |-> None, metadata |-> metadata,
          uploads_dir |-> up]
    ELSE IF env.copyfile = "open_failed"
    THEN [raised |-> PyError("OSError", "open upload"), content_cid |-> None,
          metadata |-> metadata, uploads_dir |-> up]
    ELSE IF env.copyfile = "write_failed"
    THEN [raised |-> PyError("OSError", "copyfileobj"), content_cid |-> None,
          metadata |-> metadata, uploads_dir |-> up \cup {file_path}]
    ELSE IF ~env.add_file
    THEN [raised |-> PyError("ErrorResponse", "add file"), content_cid |-> None,
          metadata |-> metadata, uploads_dir |-> up \cup {file_path}]
    ELSE [raised |-> NoException, content_cid |-> "QmContent",
          metadata |-> metadata, uploads_dir |-> up]

\* "if file:": save the upload, add it to IPFS, extend the metadata, remove it.
\* The temporary file is removed only after a successful add.
HandleFileUpload(up, nft_id, file, metadata, env) ==
    LET file_path == UploadFile(nft_id, file) IN
    IF ~FileGiven(file)
    THEN [raised |-> NoException, content_cid |-> None, metadata |-> metadata,
          uploads_dir |-> up]
    ELSE IF env.copyfile = "open_failed"
    THEN [raised |-> PyError("OSError", "open upload"), content_cid |-> None,
          metadata |-> metadata, uploads_dir |-> up]
    ELSE IF env.copyfile = "write_failed"
    THEN [raised |-> PyError("OSError", "copyfileobj"), content_cid |-> None,
          metadata |-> metadata, uploads_dir |-> up \cup {file_path}]
    ELSE IF ~env.add_file
    THEN [raised |-> PyError("ErrorResponse", "add file"), content_cid |-> None,
          metadata |-> metadata, uploads_dir |-> up \cup {file_path}]
    ELSE [raised |-> NoException, content_cid |-> ContentCid,
          metadata |-> [name |-> metadata.name,
                        description |-> metadata.description,
                        attributes |-> metadata.attributes,
                        image |-> <<"ipfs://", ContentCid>>,
                        content_type |-> file.content_type],
          uploads_dir |-> (up \cup {file_path}) \ {file_path}]

\* The record stored locally and handed to NFTResponse.
NftData(nft_id, content_cid, metadata_cid, metadata) ==
    [nft_id |-> nft_id, content_cid |-> content_cid,
     metadata_cid |-> metadata_cid, metadata |-> metadata]

\* "Add metadata to IPFS" down to "return NFTResponse(**nft_data)".
StoreAndRespond(md, up, oc, ipfs_client, nft_id, content_cid, metadata, env) ==
    LET md1 == WriteFile(md, MetadataFile(nft_id), metadata, env.write_metadata)
        nft_data == NftData(nft_id, content_cid, MetadataCid, metadata)
        md2 == WriteFile(md1, NftDataFile(nft_id), EncodeNftData(nft_data),
                         env.dump_data)
    IN  IF env.write_metadata # "ok"
        THEN Outcome(PyError("OSError", "write metadata"), NoNFT, md1, up, oc, ipfs_client)
        ELSE IF ~env.add_metadata
        THEN Outcome(PyError("ErrorResponse", "add metadata"), NoNFT, md1, up, oc, ipfs_client)
        ELSE IF env.dump_data # "ok"
        THEN Outcome(PyError("OSError", "dump data"), NoNFT, md2, up, oc, ipfs_client)
        ELSE IF ~NFTResponseValid(nft_data)
        THEN Outcome(PyError("ValidationError", "NFTResponse"), NoNFT, md2, up, oc, ipfs_client)
        ELSE Outcome(NoException, nft_data, md2, up, oc, ipfs_client)

\* The try block of upload_to_ipfs.
UploadTry(md, up, oc, nft_id, file, name, description, attributes, env) ==
    LET parsed == JsonLoads(attributes)
        nft_attributes == IF Truthy(attributes) THEN parsed.value ELSE << >>
        metadata == [name |-> name, description |-> description,
                     attributes |-> nft_attributes]
        ipfs_client == get_ipfs_client(env.connect, oc)
        oc1 == IF ipfs_client # NoClient THEN oc \cup {ipfs_client} ELSE oc
        f == HandleFileUpload(up, nft_id, file, metadata, env)
    IN  IF Truthy(attributes) /\ ~parsed.ok
        THEN Outcome(HTTPException(400, "Invalid attributes JSON format"),
                     NoNFT, md, up, oc, Unbound)
        ELSE IF ipfs_client = NoClient
        THEN Outcome(HTTPException(503, "IPFS connection failed"),
                     NoNFT, md, up, oc, NoClient)
        ELSE IF f.raised # NoException
        THEN Outcome(f.raised, NoNFT, md, f.uploads_dir, oc1, ipfs_client)
        ELSE StoreAndRespond(md, f.uploads_dir, oc1, ipfs_client, nft_id,
                             f.content_cid, f.metadata, env)

\* "except Exception as e: raise HTTPException(status_code=500, ...)": the
\* only except clause of upload_to_ipfs; it takes every exception the try
\* block raises.
UploadExcept(raised) ==
    IF raised # NoException /\ IsException(raised)
    THEN HTTPException(500, "Error uploading to IPFS")
    ELSE raised

\* Mutant of UploadFinally: the client is never closed.
UploadFinallyLeaks(oc, ipfs_client) == oc

\* "finally: if 'ipfs_client' in locals() and ipfs_client: ipfs_client.close()"
UploadFinally(oc, ipfs_client) ==
    IF ipfs_client # Unbound /\ ipfs_client # NoClient
    THEN oc \ {ipfs_client}
    ELSE oc

\* Mutant of Uuid4: the generator hands out one id again and again.
Uuid4Repeats(n) == 1

\* nft_id = str(uuid4()): an id no earlier request was given; n ids were
\* produced before.
Uuid4(n) == n + 1

-----------------------------------------------------------------------------
(* GET /nft/{nft_id} *)

\* "except HTTPException: raise" then "except Exception as e: raise 500":
\* the except clauses of get_nft and of the two qrcode routes.
ReadExcept(raised, detail) ==
    IF raised.type = "HTTPException" \/ raised = NoException
    THEN raised
    ELSE HTTPException(500, detail)

\* The try block of get_nft.
GetNftTry(md, nft_id) ==
    LET nft_data_file == NftDataFile(nft_id)
        loaded == JsonLoad(md[nft_data_file])
    IN  IF nft_data_file \notin DOMAIN md
        THEN [raised |-> HTTPException(404, "NFT not found"), nft |-> NoNFT]
        ELSE IF ~loaded.ok
        THEN [raised |-> PyError("JSONDecodeError", "json.load"), nft |-> NoNFT]
        ELSE IF ~NFTResponseValid(loaded.value)
        THEN [raised |-> PyError("ValidationError", "NFTResponse"), nft |-> NoNFT]
        ELSE [raised |-> NoException, nft |-> loaded.value]

-----------------------------------------------------------------------------
(* GET /nfts/ *)

\* a < b on str, by code points
RECURSIVE StrLess(_, _)
StrLess(a, b) ==
    IF b = << >> THEN FALSE
    ELSE IF a = << >> THEN TRUE
    ELSE IF Head(a) # Head(b) THEN Head(a) < Head(b)
    ELSE StrLess(Tail(a), Tail(b))

\* x.metadata.get("name", "")
SortKey(x) ==
    IF "name" \in DOMAIN x.metadata THEN x.metadata.name ELSE << >>

\* Mutant of InsertDescending: x goes in front of the elements of its own key
\* (a sort that is not stable).
RECURSIVE InsertDescendingUnstable(_, _)
InsertDescendingUnstable(sorted, x) ==
    IF sorted = << >> THEN << x >>
    ELSE IF ~StrLess(SortKey(x), SortKey(Head(sorted)))
    THEN << x >> \o sorted
    ELSE << Head(sorted) >> \o InsertDescendingUnstable(Tail(sorted), x)

\* list.sort(key=..., reverse=True) is stable: x goes behind every element
\* whose key is not smaller than its own.
RECURSIVE InsertDescending(_, _)
InsertDescending(sorted, x) ==
    IF sorted = << >> THEN << x >>
    ELSE IF StrLess(SortKey(Head(sorted)), SortKey(x))
    THEN << x >> \o sorted
    ELSE << Head(sorted) >> \o InsertDescending(Tail(sorted), x)

RECURSIVE SortDescending(_, _)
SortDescending(sorted, rest) ==
    IF rest = << >> THEN sorted
    ELSE SortDescending(InsertDescending(sorted, Head(rest)), Tail(rest))

\* The loop over nft_data_files: a file that does not load or does not
\* validate is skipped.
RECURSIVE LoadAll(_, _)
LoadAll(md, nft_data_files) ==
    IF nft_data_files = << >> THEN << >>
    ELSE LET loaded == JsonLoad(md[Head(nft_data_files)])
             others == LoadAll(md, Tail(nft_data_files))
         IN  IF loaded.ok /\ NFTResponseValid(loaded.value)
             THEN << loaded.value >> \o others
             ELSE others

\* metadata_dir.glob("*_data.json"): the matching files, in whatever order
\* the directory hands them out.
GlobNftData(md) ==
    LET matching == { p \in DOMAIN md : p[2] = "_data.json" }
        n == Cardinality(matching)
    IN  { order \in [1..n -> matching] :
            \A i, j \in 1..n : order[i] = order[j] => i = j }

\* The try block of list_all_nfts for one enumeration order.
ListAllNfts(md, nft_data_files) ==
    SortDescending(<< >>, LoadAll(md, nft_data_files))

-----------------------------------------------------------------------------
(* GET /qrcode/{nft_id} and GET /qrcode/gateway/{nft_id} *)

\* Mutant of QrCid: no fallback to the metadata identifier.
QrCidWithoutFallback(nft_data) == nft_data.content_cid

\* content_cid = nft_data.get("content_cid"); if not content_cid:
\* content_cid = nft_data.get("metadata_cid")
QrCid(nft_data) ==
    IF Truthy(nft_data.content_cid)
    THEN nft_data.content_cid
    ELSE nft_data.metadata_cid

\* f"ipfs://{content_cid}"
IpfsUrl(cid) == <<"ipfs://", cid>>

\* f"https://{gateway}/ipfs/{content_cid}"
GatewayUrl(gateway, cid) == <<"https://", gateway, "/ipfs/", cid>>

NoUrl == << >>

\* The try block the two qrcode routes share up to the URL; the image
\* returned is the QR code of that URL.
QrCodeTry(md, nft_id) ==
    LET nft_data_file == NftDataFile(nft_id)
        loaded == JsonLoad(md[nft_data_file])
    IN  IF nft_data_file \notin DOMAIN md
        THEN [raised |-> HTTPException(404, "NFT not found"), cid |-> None]
        ELSE IF ~loaded.ok
        THEN [raised |-> PyError("JSONDecodeError", "json.load"), cid |-> None]
        ELSE [raised |-> NoException, cid |-> QrCid(loaded.value)]

-----------------------------------------------------------------------------
(* Requests *)

\* The last request and its response: the route and its arguments, the
\* status, the exception first raised inside the handler, the body, and the
\* client handles the request connected and closed.
NoResponse ==
    [route |-> "none", nft_id |-> 0, file |-> NoFile, attributes |-> None,
     gateway |-> None, status_code |-> 0, raised |-> NoException,
     nft |-> NoNFT, nfts |-> << >>, total_count |-> 0, scanned |-> << >>,
     url |-> NoUrl, ipfs |-> None, opened |-> {}, closed |-> {}, env |-> AllOk]

StatusOf(exc) == IF exc = NoException THEN 200 ELSE exc.status_code

Init ==
    /\ metadata_dir = << >>
    /\ uploads_dir = {}
    /\ open_clients = {}
    /\ uuids = 0
    /\ issued = << >>
    /\ response = NoResponse

upload_to_ipfs ==
    /\ uuids < MaxUuids
    /\ Handles \ open_clients # {}
    /\ \E file \in Files, name \in Names, description \in Descriptions,
          attributes \in AttributeTexts :
      \E env \in EnvsOf(file, ~Truthy(attributes) \/ JsonLoads(attributes).ok) :
        LET nft_id == Uuid4(uuids)
            t == UploadTry(metadata_dir, uploads_dir, open_clients, nft_id,
                           file, name, description, attributes, env)
            exc == UploadExcept(t.raised)
            oc == UploadFinally(t.open_clients, t.ipfs_client)
        IN  /\ uuids' = uuids + 1
            /\ metadata_dir' = t.metadata_dir
            /\ uploads_dir' = t.uploads_dir
            /\ open_clients' = oc
            /\ issued' = IF exc = NoException
                         THEN Write(issued, nft_id, t.nft)
                         ELSE issued
            /\ response' = [NoResponse EXCEPT
                               !.route = "upload", !.nft_id = nft_id,
                               !.file = file, !.attributes = attributes,
                               !.env = env,
                               !.status_code = StatusOf(exc),
                               !.raised = t.raised, !.nft = t.nft,
                               !.opened = t.open_clients \ open_clients,
                               !.closed = t.open_clients \ oc]

get_nft ==
    \E nft_id \in 1..MaxUuids :
        LET t == GetNftTry(metadata_dir, nft_id)
            exc == ReadExcept(t.raised, "Error retrieving NFT")
        IN  /\ response' = [NoResponse EXCEPT
                               !.route = "nft", !.nft_id = nft_id,
                               !.status_code = StatusOf(exc),
                               !.raised = t.raised, !.nft = t.nft]
            /\ UNCHANGED <<metadata_dir, uploads_dir, open_clients, uuids, issued>>

list_all_nfts ==
    \E nft_data_files \in GlobNftData(metadata_dir) :
        LET nfts == ListAllNfts(metadata_dir, nft_data_files)
        IN  /\ response' = [NoResponse EXCEPT
                               !.route = "nfts", !.status_code = 200,
                               !.scanned = nft_data_files,
                               !.nfts = nfts, !.total_count = Len(nfts)]
            /\ UNCHANGED <<metadata_dir, uploads_dir, open_clients, uuids, issued>>

health_check ==
    /\ Handles \ open_clients # {}
    /\ \E connect \in BOOLEAN :
        LET client == get_ipfs_client(connect, open_clients)
            connected == IF client # NoClient
                         THEN open_clients \cup {client}
                         ELSE open_clients
            closed == IF client # NoClient THEN connected \ {client} ELSE connected
        IN  /\ open_clients' = closed
            /\ response' = [NoResponse EXCEPT
                               !.route = "health", !.status_code = 200,
                               !.ipfs = IF client # NoClient
                                        THEN "connected" ELSE "disconnected",
                               !.opened = connected \ open_clients,
                               !.closed = connected \ closed]
            /\ UNCHANGED <<metadata_dir, uploads_dir, uuids, issued>>

generate_qr_code ==
    \E nft_id \in 1..MaxUuids :
        LET t == QrCodeTry(metadata_dir, nft_id)
            exc == ReadExcept(t.raised, "Error generating QR code")
        IN  /\ response' = [NoResponse EXCEPT
                               !.route = "qrcode", !.nft_id = nft_id,
                               !.status_code = StatusOf(exc),
                               !.raised = t.raised,
                               !.url = IF exc = NoException
                                       THEN IpfsUrl(t.cid) ELSE NoUrl]
            /\ UNCHANGED <<metadata_dir, uploads_dir, open_clients, uuids, issued>>

generate_gateway_qr_code ==
    \E nft_id \in 1..MaxUuids, gateway \in Gateways :
        LET t == QrCodeTry(metadata_dir, nft_id)
            exc == ReadExcept(t.raised, "Error generating QR code")
        IN  /\ response' = [NoResponse EXCEPT
                               !.route = "qrcode/gateway", !.nft_id = nft_id,
                               !.gateway = gateway,
                               !.status_code = StatusOf(exc),
                               !.raised = t.raised,
                               !.url = IF exc = NoException
                                       THEN GatewayUrl(gateway, t.cid) ELSE NoUrl]
            /\ UNCHANGED <<metadata_dir, uploads_dir, open_clients, uuids, issued>>

Next ==
    \/ upload_to_ipfs
    \/ get_nft
    \/ list_all_nfts
    \/ health_check
    \/ generate_qr_code
    \/ generate_gateway_qr_code

Spec == Init /\ [][Next]_vars

-----------------------------------------------------------------------------
(* Properties *)

\* The files a create request with this id can have left behind.
HasFilesOf(nft_id) ==
    \/ MetadataFile(nft_id) \in DOMAIN metadata_dir
    \/ NftDataFile(nft_id) \in DOMAIN metadata_dir
    \/ \E p \in uploads_dir : p[1] = nft_id

\* The last request was a create.
Created == response.route = "upload"

\* The full records of the store: the data files that hold a whole document.
FullRecords ==
    { p \in DOMAIN metadata_dir : p[2] = "_data.json" /\ metadata_dir[p].complete }
RecordAt(p) == DecodeNftData(metadata_dir[p].json)

\* C1: a create whose attributes text does not parse as JSON ends with 400,
\* opens no storage connection and leaves no file of its id behind.
C1_InvalidAttributesGive400 ==
    (Created /\ Truthy(response.attributes) /\ ~JsonLoads(response.attributes).ok)
        => /\ response.status_code = 400
           /\ response.opened = {}
           /\ ~HasFilesOf(response.nft_id)

\* C2: a create during which the storage connect fails ends with 503 and
\* leaves no file of its id in the upload and metadata directories.
C2_ConnectFailureGives503 ==
    (Created /\ response.raised = HTTPException(503, "IPFS connection failed"))
        => /\ response.status_code = 503
           /\ ~HasFilesOf(response.nft_id)

\* C3: a create without a file, with a reachable storage node and every add
\* and write succeeding, ends with 200 and a record that has a metadata
\* identifier, no content identifier and neither image nor content_type.
C3_CreateWithoutFileSucceeds ==
    (/\ Created
     /\ ~FileGiven(response.file)
     /\ ~Truthy(response.attributes) \/ JsonLoads(response.attributes).ok
     /\ response.env = AllOk)
        => /\ response.status_code = 200
           /\ response.nft.metadata_cid # None
           /\ response.nft.content_cid = None
           /\ "image" \notin DOMAIN response.nft.metadata
           /\ "content_type" \notin DOMAIN response.nft.metadata

\* C4: after a create that ended in an error there is no full record file of
\* its id, and no route shows a record for that id.
C4_FailedCreateLeavesNoRecord ==
    (Created /\ response.status_code # 200)
        => /\ NftDataFile(response.nft_id) \notin DOMAIN metadata_dir
           /\ GetNftTry(metadata_dir, response.nft_id).raised # NoException
           /\ QrCodeTry(metadata_dir, response.nft_id).raised # NoException
           /\ \A order \in GlobNftData(metadata_dir) :
                \A i \in 1..Len(ListAllNfts(metadata_dir, order)) :
                    ListAllNfts(metadata_dir, order)[i].nft_id # response.nft_id

\* C5: get-record of an id a create returned with 200 returns the record
\* that create returned, in every later state.
C5_GetReturnsCreatedRecord ==
    \A nft_id \in DOMAIN issued :
        GetNftTry(metadata_dir, nft_id) =
            [raised |-> NoException, nft |-> issued[nft_id]]

C5_Witness ==
    /\ 1 \in DOMAIN issued
    /\ uuids = 2
    /\ response.route = "nft" /\ response.nft_id = 1
    /\ response.status_code = 200
    /\ response.nft = issued[1]
    /\ response.nft.metadata.attributes = << [trait |-> "x"] >>

\* C6: every full record of the store has a metadata identifier, and has a
\* content identifier exactly when its metadata has an image key, exactly
\* when it has a content_type key; the image is "ipfs://" + content identifier.
C6_RecordShape ==
    \A p \in FullRecords :
        LET d == RecordAt(p) IN
        /\ d.metadata_cid # None
        /\ (d.content_cid # None) <=> ("image" \in DOMAIN d.metadata)
        /\ (d.content_cid # None) <=> ("content_type" \in DOMAIN d.metadata)
        /\ d.content_cid # None => d.metadata.image = <<"ipfs://", d.content_cid>>

C6_Witness ==
    /\ NftDataFile(1) \in FullRecords /\ NftDataFile(2) \in FullRecords
    /\ RecordAt(NftDataFile(1)).content_cid = None
    /\ RecordAt(NftDataFile(2)).content_cid = ContentCid
    /\ RecordAt(NftDataFile(2)).metadata.image = <<"ipfs://", ContentCid>>

\* The last request was a list-records.
Listed == response.route = "nfts"

\* The full records that also pass NFTResponse: the ones a listing loads.
Listable == { p \in FullRecords : NFTResponseValid(RecordAt(p)) }

\* The place of a record's file in the enumeration the listing scanned.
ScanIndex(nft_id) ==
    CHOOSE i \in 1..Len(response.scanned) : response.scanned[i] = NftDataFile(nft_id)

\* The listing holds the loadable records, each once, as stored.
ListsLoadable ==
    /\ { response.nfts[i].nft_id : i \in 1..Len(response.nfts) } =
           { p[1] : p \in Listable }
    /\ Len(response.nfts) = Cardinality(Listable)
    /\ \A i \in 1..Len(response.nfts) :
           response.nfts[i] = RecordAt(NftDataFile(response.nfts[i].nft_id))
    /\ response.total_count = Len(response.nfts)

SortedDescending ==
    \A i, j \in 1..Len(response.nfts) :
        i < j => ~StrLess(SortKey(response.nfts[i]), SortKey(response.nfts[j]))

\* C7 as stated: the listing holds the loadable records sorted descending by
\* name, records of one name in the order of their creation, and total_count
\* is their number.
C7_ListSortedTiesByCreation ==
    Listed =>
        /\ ListsLoadable
        /\ SortedDescending
        /\ \A i, j \in 1..Len(response.nfts) :
               (i < j /\ SortKey(response.nfts[i]) = SortKey(response.nfts[j]))
                   => response.nfts[i].nft_id < response.nfts[j].nft_id

\* C7 as amended: the listing holds the loadable records sorted descending by
\* name, records of one name in the order in which the directory scan
\* enumerated their files, and total_count is their number.
C7_ListSortedTiesByScan ==
    Listed =>
        /\ ListsLoadable
        /\ SortedDescending
        /\ \A i, j \in 1..Len(response.nfts) :
               (i < j /\ SortKey(response.nfts[i]) = SortKey(response.nfts[j]))
                   => ScanIndex(response.nfts[i].nft_id)
                          < ScanIndex(response.nfts[j].nft_id)

C7_Witness ==
    /\ Listed
    /\ response.total_count = 2
    /\ SortKey(response.nfts[1]) = SortKey(response.nfts[2])
    /\ response.nfts[1].nft_id = 2 /\ response.nfts[2].nft_id = 1
    /\ response.scanned = << NftDataFile(2), NftDataFile(1) >>

\* C8: for an existing record the plain route encodes "ipfs://{cid}" and the
\* gateway route "https://{gateway}/ipfs/{cid}", cid being the content
\* identifier when the record has one and the metadata identifier otherwise;
\* for an id without a record file both routes end with 404 and encode nothing.
C8_QrTarget ==
    response.route \in { "qrcode", "qrcode/gateway" } =>
        LET p == NftDataFile(response.nft_id)
            d == RecordAt(p)
            cid == IF d.content_cid # None THEN d.content_cid ELSE d.metadata_cid
        IN  /\ p \notin DOMAIN metadata_dir
                => response.status_code = 404 /\ response.url = NoUrl
            /\ p \in FullRecords
                => /\ response.status_code = 200
                   /\ response.route = "qrcode"
                        => response.url = <<"ipfs://", cid>>
                   /\ response.route = "qrcode/gateway"
                        => response.url =
                             <<"https://", response.gateway, "/ipfs/", cid>>

C8_Witness ==
    /\ response.route = "qrcode/gateway"
    /\ response.status_code = 200
    /\ NftDataFile(1) \in FullRecords /\ NftDataFile(2) \in FullRecords
    /\ RecordAt(NftDataFile(1)).content_cid = ContentCid
    /\ RecordAt(NftDataFile(2)).content_cid = None
    /\ response.nft_id = 2
    /\ response.url = <<"https://", "dweb.link", "/ipfs/", MetadataCid>>

\* C9: when a request has completed, every storage connection it opened is
\* closed, whatever its exit path; it closed only handles it opened itself,
\* and the routes that do not touch the storage node opened none.
C9_ConnectionsClosed ==
    /\ open_clients = {}
    /\ response.closed = response.opened
    /\ response.route \notin { "upload", "health" } => response.opened = {}

C9_Witness ==
    /\ Created
    /\ response.status_code = 500
    /\ response.raised = PyError("ErrorResponse", "add metadata")
    /\ response.opened = {1} /\ response.closed = {1}
    /\ open_clients = {}

\* C10: once a create that carried a file has completed, no temporary file of
\* its id is left in the uploads directory, whether the upload succeeded or not.
C10_TempFileRemoved ==
    (Created /\ FileGiven(response.file))
        => ~ \E p \in uploads_dir : p[1] = response.nft_id

====
